---- MODULE Spec2Model ----
(***************************************************************************)
(* A model of simple_sampleAgent.py: the Agent's tool registry, its        *)
(* bounded memory, the completion client (query_llm), the response parser  *)
(* (json_parser) and the dispatch in process_input.                        *)
(*                                                                         *)
(* A Python str is a sequence of symbols.  A symbol is a one-character     *)
(* string, or a run of characters that no operation of the program takes   *)
(* apart (a dict key, a literal, a fixed message).  JSON text is such a    *)
(* sequence; json.loads is modelled by the scanner it runs.                *)
(***************************************************************************)
EXTENDS Integers, Sequences, FiniteSets, TLC

VARIABLES
    tools,         \* self.tools: the registered Tool objects, in add_tool order
    memory,        \* self.memory
    history,       \* ghost: every record ever appended to self.memory
    pc,            \* position of the caller: "idle", or inside process_input
    user_input,    \* argument of the running process_input call
    prompt,        \* the prompt rendered by the running call
    backend,       \* ghost: what the completion backend did in this call
    response,      \* local `response` of process_input: the raw text
    response_dict, \* local `response_dict` of process_input
    result,        \* what the last process_input call returned or raised
    invoked,       \* ghost: tool.use calls attempted by the last call
    llm_calls,     \* ghost: requests.post calls issued by the last call
    turns,         \* ghost: number of process_input calls started
    input_string,  \* argument of a stand-alone json_parser call
    parsed,        \* result of that json_parser call
    time_city,     \* argument of a stand-alone TimeTool.use call
    time_result,   \* what that TimeTool.use call returned or raised
    run,           \* Agent.run: position in the loop, line read, lines printed
    previous       \* ghost: the last call of the Agent constructed before

vars == <<tools, memory, history, pc, user_input, prompt, backend, response,
          response_dict, result, invoked, llm_calls, turns, input_string,
          parsed, time_city, time_result, run, previous>>

(***************************************************************************)
(* Bounds of the model.                                                    *)
(***************************************************************************)
MaxTools == 2
MaxTurns == 2
MaxLongTurns == 7
MaxTextLen == 4
MaxLines == 2

(***************************************************************************)
(* Strings.                                                                *)
(***************************************************************************)
UCASE == <<"A","B","C","D","E","F","G","H","I","J","K","L","M",
           "N","O","P","Q","R","S","T","U","V","W","X","Y","Z">>
LCASE == <<"a","b","c","d","e","f","g","h","i","j","k","l","m",
           "n","o","p","q","r","s","t","u","v","w","x","y","z">>

\* str.lower() on one character
LowerCh(c) ==
    IF \E i \in 1..26 : UCASE[i] = c
    THEN LCASE[CHOOSE i \in 1..26 : UCASE[i] = c]
    ELSE c

\* str.upper() on one character
UpperCh(c) ==
    IF \E i \in 1..26 : LCASE[i] = c
    THEN UCASE[CHOOSE i \in 1..26 : LCASE[i] = c]
    ELSE c

\* str.lower()
Lower(s) == [i \in 1..Len(s) |-> LowerCh(s[i])]

\* characters str.strip() and the JSON scanner treat as whitespace
WS == {" ", "\n"}

(***************************************************************************)
(* Python values, as json.loads builds them.                               *)
(***************************************************************************)
PyStr(s) == [k |-> "str", s |-> s]
PyInt(d) == [k |-> "int", d |-> d]
PyNone == [k |-> "None"]
PyBool(b) == [k |-> "bool", b |-> b]
PyFloat(f) == [k |-> "float", f |-> f]
PyList(items) == [k |-> "list", items |-> items]
PyDict(m) == [k |-> "dict", m |-> m]

EmptyMap == [x \in {} |-> PyNone]

\* d[key] = v on a dict's mapping
MapPut(m, key, v) ==
    [x \in (DOMAIN m) \cup {key} |-> IF x = key THEN v ELSE m[x]]

(***************************************************************************)
(* json.loads: the scanner of the json module (scan_once, JSONObject,      *)
(* JSONArray, scanstring, the number pattern), with the whitespace         *)
(* skipping and the "Extra data" test of JSONDecoder.decode.  A result     *)
(* with ok = FALSE is a raised JSONDecodeError.  The literals null, true   *)
(* and NaN (which the module accepts beside the JSON of RFC 8259) are one  *)
(* symbol each; numbers are the non-negative integers.                     *)
(***************************************************************************)
DecodeError == [ok |-> FALSE]
Scanned(v, e) == [ok |-> TRUE, val |-> v, end |-> e]

DIGITS == {"0", "1"}

\* first index >= i that holds no whitespace (Len(s) + 1 at the end)
SkipWs(s, i) ==
    CHOOSE j \in i..(Len(s) + 1) :
        /\ \A n \in i..(j - 1) : s[n] \in WS
        /\ (j = Len(s) + 1 \/ s[j] \notin WS)

\* scanstring: i is the index right after the opening quote
ScanString(s, i) ==
    IF \E j \in i..Len(s) : s[j] = "\""
    THEN LET j == CHOOSE n \in i..Len(s) :
                      s[n] = "\"" /\ \A q \in i..(n - 1) : s[q] # "\""
         IN Scanned(PyStr(SubSeq(s, i, j - 1)), j + 1)
    ELSE DecodeError

\* the integer part of NUMBER_RE at index i: 0, or a run of digits that
\* does not start with 0
ScanNumber(s, i) ==
    IF s[i] = "0"
    THEN Scanned(PyInt(<<"0">>), i + 1)
    ELSE LET j == CHOOSE n \in i..Len(s) :
                      /\ \A q \in i..n : s[q] \in DIGITS
                      /\ (n = Len(s) \/ s[n + 1] \notin DIGITS)
         IN Scanned(PyInt(SubSeq(s, i, j)), j + 1)

RECURSIVE ScanOnce(_, _), ScanObject(_, _, _), ScanArray(_, _, _)

\* scan_once(string, idx)
ScanOnce(s, i) ==
    IF i > Len(s) THEN DecodeError
    ELSE IF s[i] = "\"" THEN ScanString(s, i + 1)
    ELSE IF s[i] = "{" THEN
        LET j == SkipWs(s, i + 1)
        IN IF j > Len(s) THEN DecodeError
           ELSE IF s[j] = "}" THEN Scanned(PyDict(EmptyMap), j + 1)
           ELSE IF s[j] # "\"" THEN DecodeError
           ELSE ScanObject(s, j, EmptyMap)
    ELSE IF s[i] = "[" THEN
        LET j == SkipWs(s, i + 1)
        IN IF j > Len(s) THEN DecodeError
           ELSE IF s[j] = "]" THEN Scanned(PyList(<<>>), j + 1)
           ELSE ScanArray(s, j, <<>>)
    ELSE IF s[i] = "null" THEN Scanned(PyNone, i + 1)
    ELSE IF s[i] = "true" THEN Scanned(PyBool(TRUE), i + 1)
    ELSE IF s[i] = "NaN" THEN Scanned(PyFloat("nan"), i + 1)
    ELSE IF s[i] \in DIGITS THEN ScanNumber(s, i)
    ELSE DecodeError

\* the member loop of JSONObject: i is the index of a key's opening quote
ScanObject(s, i, m) ==
    LET key == ScanString(s, i + 1)
    IN IF ~key.ok THEN DecodeError
       ELSE LET c == SkipWs(s, key.end)
            IN IF c > Len(s) \/ s[c] # ":" THEN DecodeError
               ELSE LET v == ScanOnce(s, SkipWs(s, c + 1))
                    IN IF ~v.ok THEN DecodeError
                       ELSE LET m2 == MapPut(m, key.val.s, v.val)
                                n == SkipWs(s, v.end)
                            IN IF n > Len(s) THEN DecodeError
                               ELSE IF s[n] = "}"
                                    THEN Scanned(PyDict(m2), n + 1)
                               ELSE IF s[n] # "," THEN DecodeError
                               ELSE LET q == SkipWs(s, n + 1)
                                    IN IF q > Len(s) \/ s[q] # "\""
                                       THEN DecodeError
                                       ELSE ScanObject(s, q, m2)

\* the element loop of JSONArray: i is the index of an element's start
ScanArray(s, i, items) ==
    LET v == ScanOnce(s, i)
    IN IF ~v.ok THEN DecodeError
       ELSE LET items2 == Append(items, v.val)
                n == SkipWs(s, v.end)
            IN IF n > Len(s) THEN DecodeError
               ELSE IF s[n] = "]" THEN Scanned(PyList(items2), n + 1)
               ELSE IF s[n] # "," THEN DecodeError
               ELSE ScanArray(s, SkipWs(s, n + 1), items2)

\* json.loads(s)
json_loads(s) ==
    LET v == ScanOnce(s, SkipWs(s, 1))
    IN IF ~v.ok THEN DecodeError
       ELSE IF SkipWs(s, v.end) # Len(s) + 1 THEN DecodeError
       ELSE v

(***************************************************************************)
(* Text constants of the program.                                          *)
(***************************************************************************)
max_memory == 10

\* dict keys and parameter names: compared only as wholes
K_action == <<"action">>
K_args == <<"args">>
K_response == <<"response">>
K_city == <<"city">>
K_choices == <<"choices">>
K_text == <<"text">>

RESPOND_TO_USER ==
    <<"r","e","s","p","o","n","d","_","t","o","_","u","s","e","r">>

MSG_NOT_UNDERSTOOD ==
    <<"I couldn't understand the response from the LLM. It's not in the correct format.">>
MSG_PROCESSING_ERROR ==
    <<"There was an error processing the LLM's response.">>
MSG_NO_CONTENT ==
    <<"The LLM did not return any content.">>
MSG_LLM_ERROR ==
    <<"There was an error getting a response from the LLM.">>

\* '{"action": "respond_to_user", "args": {"response": "<msg>"}}'
SerializedFallback(msg) ==
    <<"{", "\"">> \o K_action \o <<"\"", ":", " ", "\"">> \o RESPOND_TO_USER
    \o <<"\"", ",", " ", "\"">> \o K_args \o <<"\"", ":", " ", "{", "\"">>
    \o K_response \o <<"\"", ":", " ", "\"">> \o msg \o <<"\"", "}", "}">>

(***************************************************************************)
(* Tools.  A registered tool is an object of a concrete Tool class:        *)
(* TimeTool, or AnyTool, a subclass that keeps the abstract signature      *)
(* use(self, *args, **kwargs).                                             *)
(***************************************************************************)
ToolClasses == {"TimeTool", "AnyTool"}

TimeToolName == <<"T","i","m","e"," ","T","o","o","l">>
AnyToolName == <<"W","e","a","t","h","e","r"," ","T","o","o","l">>

\* tool.name()
tool_name(t) == IF t.cls = "TimeTool" THEN TimeToolName ELSE AnyToolName

\* tool.description()
tool_description(t) ==
    IF t.cls = "TimeTool"
    THEN <<"Provide the current time of a given city. If no timezone is provided, it returns the local time.">>
    ELSE <<"description of another tool">>

\* TimeTool.get_timezone: the table, keyed by lower-case city
city_timezones ==
    {<<"k","o","l","k","a","t","a">>, <<"l","o","n","d","o","n">>,
     <<"n","e","w"," ","y","o","r","k">>, <<"t","o","k","y","o">>,
     <<"p","a","r","i","s">>, <<"s","y","d","n","e","y">>,
     <<"l","o","s"," ","a","n","g","e","l","e","s">>,
     <<"c","h","i","c","a","g","o">>, <<"d","u","b","a","i">>,
     <<"b","e","i","j","i","n","g">>}

Returned(v) == [kind |-> "return", val |-> v]
Raised(e) == [kind |-> "raise", exc |-> e]

\* f"{v}" of a decoded JSON value (the repr of a list or a dict is kept
\* as one symbol)
Format(v) ==
    CASE v.k = "str" -> v.s
      [] v.k = "int" -> v.d
      [] v.k = "None" -> <<"None">>
      [] v.k = "bool" -> <<"True">>
      [] v.k = "float" -> <<"nan">>
      [] v.k = "list" -> <<"[...]">>
      [] v.k = "dict" -> <<"{...}">>

\* the text results of TimeTool.use; the rendered clock time and the text
\* of the caught exception are one symbol each
TimeText(city) ==
    PyStr(<<"The current time in ">> \o Format(city) \o <<" is ", "{time}", ".">>)
NoTimezoneText(city) ==
    PyStr(<<"Could not determine the timezone for ">> \o Format(city) \o <<".">>)
TimeErrorText(city) ==
    PyStr(<<"Error getting time for ">> \o Format(city) \o <<": ", "{e}">>)
AnyToolText == PyStr(<<"result of another tool">>)

\* a table lookup that takes the city as it is written
get_timezone_exact(city) ==
    IF city.k # "str" THEN Raised("AttributeError")
    ELSE IF city.s \in city_timezones THEN Returned(PyStr(<<"{zone}">>))
    ELSE Returned(PyNone)

\* TimeTool.get_timezone(city): city_timezones.get(city.lower()); the zone
\* name found is one symbol; a city that is not a str has no lower()
get_timezone(city) ==
    IF city.k # "str" THEN Raised("AttributeError")
    ELSE IF Lower(city.s) \in city_timezones THEN Returned(PyStr(<<"{zone}">>))
    ELSE Returned(PyNone)

\* TimeTool.use(city), once the call has bound city; zoneinfo says whether
\* ZoneInfo(timezone_str) finds the zone data.  Every exception of the body
\* is caught by the except clause of use.
TimeTool_use(city, zoneinfo) ==
    LET timezone_str == get_timezone(city)
    IN IF timezone_str.kind = "raise" THEN TimeErrorText(city)
       ELSE IF timezone_str.val.k = "None" THEN NoTimezoneText(city)
       ELSE IF ~zoneinfo THEN TimeErrorText(city)
       ELSE TimeText(city)

\* tool.use(**args): the call binds the keys of args to the parameters
tool_use(t, args, zoneinfo) ==
    IF args.k # "dict" THEN Raised("TypeError")
    ELSE IF t.cls = "TimeTool" THEN
        IF DOMAIN args.m = {K_city}
        THEN Returned(TimeTool_use(args.m[K_city], zoneinfo))
        ELSE Raised("TypeError")
    ELSE Returned(AnyToolText)

(***************************************************************************)
(* The completion client.                                                  *)
(***************************************************************************)
\* bool(v) of a decoded JSON value
Truthy(v) ==
    CASE v.k = "None" -> FALSE
      [] v.k = "bool" -> v.b
      [] v.k = "float" -> TRUE
      [] v.k = "str" -> v.s # <<>>
      [] v.k = "int" -> v.d # <<"0">>
      [] v.k = "list" -> v.items # <<>>
      [] v.k = "dict" -> DOMAIN v.m # {}

\* str.strip()
Strip(s) ==
    IF \A i \in 1..Len(s) : s[i] \in WS THEN <<>>
    ELSE LET a == CHOOSE i \in 1..Len(s) :
                      s[i] \notin WS /\ \A j \in 1..(i - 1) : s[j] \in WS
             b == CHOOSE i \in 1..Len(s) :
                      s[i] \notin WS /\ \A j \in (i + 1)..Len(s) : s[j] \in WS
         IN SubSeq(s, a, b)

\* d.get(key, default)
DictGet(d, key, default) == IF key \in DOMAIN d.m THEN d.m[key] ELSE default

\* What requests.post / raise_for_status / response.json() can do:
\*   ConnectionError, Timeout, HTTPError: a RequestException is raised;
\*   BodyNotJSON: response.json() raises, a RequestException when
\*       catchable is TRUE (requests >= 2.27), a plain ValueError otherwise;
\*   JSON: response.json() returns body.
TransportFailures ==
    {[kind |-> "ConnectionError"], [kind |-> "Timeout"], [kind |-> "HTTPError"]}
BodyNotJSON(catchable) == [kind |-> "BodyNotJSON", catchable |-> catchable]
JSONBody(body) == [kind |-> "JSON", body |-> body]

\* the body {"choices": [{"text": text}]}
Completion(text) ==
    JSONBody(PyDict(MapPut(EmptyMap, K_choices,
        PyList(<<PyDict(MapPut(EmptyMap, K_text, PyStr(text)))>>))))

\* query_llm(prompt), given what the backend does
query_llm(o) ==
    IF o \in TransportFailures THEN Returned(SerializedFallback(MSG_LLM_ERROR))
    ELSE IF o.kind = "BodyNotJSON" THEN
        IF o.catchable THEN Returned(SerializedFallback(MSG_LLM_ERROR))
        ELSE Raised("ValueError")
    ELSE IF o.body.k # "dict" THEN Raised("AttributeError")
    ELSE LET choices == DictGet(o.body, K_choices, PyList(<<>>))
         IN IF ~Truthy(choices)
            THEN Returned(SerializedFallback(MSG_NO_CONTENT))
            ELSE IF choices.k = "dict"        \* choices[0]: KeyError
            THEN Returned(SerializedFallback(MSG_LLM_ERROR))
            ELSE IF choices.k = "str"         \* choices[0] has no get
            THEN Raised("AttributeError")
            ELSE IF choices.k # "list"        \* choices[0]: not subscriptable
            THEN Raised("TypeError")
            ELSE LET c == choices.items[1]
                 IN IF c.k # "dict" THEN Raised("AttributeError")
                    ELSE LET text == DictGet(c, K_text, PyNone)
                         IN IF ~Truthy(text)
                            THEN Returned(SerializedFallback(MSG_NO_CONTENT))
                            ELSE IF text.k # "str"
                            THEN Raised("AttributeError")
                            ELSE Returned(Strip(text.s))

(***************************************************************************)
(* The response parser and the dispatch.                                   *)
(***************************************************************************)
RespondToUser(text) ==
    PyDict(MapPut(MapPut(EmptyMap, K_action, PyStr(RESPOND_TO_USER)),
                  K_args, PyDict(MapPut(EmptyMap, K_response, PyStr(text)))))

\* json_parser(input_string)
json_parser_objects_only(s) ==
    LET r == json_loads(s)
    IN IF r.ok /\ r.val.k = "dict" THEN r.val
       ELSE RespondToUser(MSG_NOT_UNDERSTOOD)
json_parser(s) ==
    LET r == json_loads(s)
    IN IF r.ok THEN r.val ELSE RespondToUser(MSG_NOT_UNDERSTOOD)

\* the test of the loop: tool.name().lower() == action.lower()
NameMatchesExactly(t, action) == tool_name(t) = action
NameMatches(t, action) == Lower(tool_name(t)) = Lower(action)

\* the tool at which `for tool in self.tools` returns: the loop goes
\* through the registry in order and returns at the first match
LastMatch(registry, action) ==
    CHOOSE i \in 1..Len(registry) :
        /\ NameMatches(registry[i], action)
        /\ \A j \in (i + 1)..Len(registry) : ~NameMatches(registry[j], action)
FirstMatch(registry, action) ==
    CHOOSE i \in 1..Len(registry) :
        /\ NameMatches(registry[i], action)
        /\ \A j \in 1..(i - 1) : ~NameMatches(registry[j], action)

\* the return after the loop
no_match_parsed(raw, decision) == Returned(decision)
no_match(raw, decision) == Returned(RespondToUser(raw))

\* The loop over self.tools and the return that follows it.  out is what
\* process_input returns or raises, calls the tool.use calls it made.
\* The loop test evaluates response_dict.get("action", "").lower() at every
\* tool, so with a tool registered it raises when response_dict has no
\* get or the action has no lower; with none registered it tests nothing.
dispatch(registry, decision, raw, zoneinfo) ==
    IF registry = <<>>
    THEN [out |-> no_match(raw, decision), calls |-> <<>>]
    ELSE IF decision.k # "dict"
    THEN [out |-> Raised("AttributeError"), calls |-> <<>>]
    ELSE LET action == DictGet(decision, K_action, PyStr(<<>>))
         IN IF action.k # "str"
            THEN [out |-> Raised("AttributeError"), calls |-> <<>>]
            ELSE IF \E i \in 1..Len(registry) : NameMatches(registry[i], action.s)
            THEN LET i == FirstMatch(registry, action.s)
                     args == DictGet(decision, K_args, PyDict(EmptyMap))
                 IN [out |-> tool_use(registry[i], args, zoneinfo),
                     calls |-> <<[tool |-> i, args |-> args]>>]
            ELSE [out |-> no_match(raw, decision), calls |-> <<>>]

\* what run prints after "Response from Agent:" for a value returned by
\* process_input
Printed(v) ==
    IF v.k = "dict" /\ DictGet(v, K_action, PyNone) = PyStr(RESPOND_TO_USER)
    THEN DictGet(v.m[K_args], K_response, v.m[K_args])
    ELSE v

\* f"User: {user_input}" and f"Agent: {response}"
UserRecord(text) == [speaker |-> "User", text |-> text]
AgentRecord(text) == [speaker |-> "Agent", text |-> text]

\* a slice that keeps one element more
LastNPlusOne(lst, n) ==
    IF Len(lst) <= n + 1 THEN lst
    ELSE SubSeq(lst, Len(lst) - n, Len(lst))

\* lst[-n:] for n > 0
LastN(lst, n) ==
    IF Len(lst) <= n THEN lst ELSE SubSeq(lst, Len(lst) - n + 1, Len(lst))

\* a prompt that also renders the records of self.memory
RenderPromptFromMemory(text, registry) ==
    [user_input |-> text,
     tool_descriptions |->
        [i \in 1..Len(registry) |->
            [name |-> tool_name(registry[i]),
             description |-> tool_description(registry[i])]],
     memory |-> memory]

\* the prompt f-string: user input and the "\n".join of the catalog lines
\* "- {name}: {description}"; the instructions and examples are fixed text
RenderPrompt(text, registry) ==
    [user_input |-> text,
     tool_descriptions |->
        [i \in 1..Len(registry) |->
            [name |-> tool_name(registry[i]),
             description |-> tool_description(registry[i])]]]

(***************************************************************************)
(* The Agent.                                                              *)
(***************************************************************************)
NoResult == [kind |-> "none"]
NoBackend == [kind |-> "none"]
NoPrompt == [user_input |-> <<>>, tool_descriptions |-> <<>>]
NotParsed == [k |-> "not called"]
NotRunning == [pc |-> "none"]
NoPrevious == [kind |-> "none"]

\* Agent.__init__
Init ==
    /\ tools = <<>>
    /\ memory = <<>>
    /\ history = <<>>
    /\ pc = "idle"
    /\ user_input = <<>>
    /\ prompt = NoPrompt
    /\ backend = NoBackend
    /\ response = <<>>
    /\ response_dict = NotParsed
    /\ result = NoResult
    /\ invoked = <<>>
    /\ llm_calls = 0
    /\ turns = 0
    /\ input_string = <<>>
    /\ parsed = NotParsed
    /\ time_city = PyNone
    /\ time_result = NoResult
    /\ run = NotRunning
    /\ previous = NoPrevious

\* a registration that puts the tool in front of the registered ones
add_tool_front(cls) ==
    /\ pc = "idle"
    /\ Len(tools) < MaxTools
    /\ tools' = <<[cls |-> cls]>> \o tools
    /\ UNCHANGED <<memory, history, pc, user_input, prompt, backend, response,
                   response_dict, result, invoked, llm_calls, turns,
                   input_string, parsed, time_city, time_result, run, previous>>

\* add_tool(tool)
add_tool(cls) ==
    /\ pc = "idle"
    /\ Len(tools) < MaxTools
    /\ tools' = Append(tools, [cls |-> cls])
    /\ UNCHANGED <<memory, history, pc, user_input, prompt, backend, response,
                   response_dict, result, invoked, llm_calls, turns,
                   input_string, parsed, time_city, time_result, run, previous>>

\* process_input, from its entry to the call of query_llm: the "User:"
\* record, the truncation, the prompt
process_input_begin(text, bound) ==
    /\ pc = "idle"
    /\ turns < bound
    /\ turns' = turns + 1
    /\ user_input' = text
    /\ memory' = LastN(Append(memory, UserRecord(text)), max_memory)
    /\ history' = Append(history, UserRecord(text))
    /\ prompt' = RenderPrompt(text, tools)
    /\ pc' = "query_llm"
    /\ backend' = NoBackend
    /\ response' = <<>>
    /\ response_dict' = NotParsed
    /\ result' = NoResult
    /\ invoked' = <<>>
    /\ llm_calls' = 0
    /\ UNCHANGED <<tools, input_string, parsed, time_city, time_result, run,
                   previous>>

\* a client that posts the request a second time when the first one failed
\* (no response, or an error status) and gets the same outcome again
process_input_query_retry(o) ==
    /\ pc = "query_llm"
    /\ backend' = o
    /\ llm_calls' = IF o \in TransportFailures THEN llm_calls + 2
                    ELSE llm_calls + 1
    /\ LET r == query_llm(o)
       IN IF r.kind = "return"
          THEN /\ response' = r.val
               /\ memory' = Append(memory, AgentRecord(r.val))
               /\ history' = Append(history, AgentRecord(r.val))
               /\ pc' = "dispatch"
               /\ UNCHANGED result
          ELSE /\ result' = r
               /\ pc' = "idle"
               /\ UNCHANGED <<response, memory, history>>
    /\ UNCHANGED <<tools, user_input, prompt, response_dict, invoked, turns,
                   input_string, parsed, time_city, time_result, run, previous>>

\* process_input, the call of query_llm and the "Agent:" record; o is what
\* the backend does.  An exception of query_llm leaves process_input.
process_input_query(o) ==
    /\ pc = "query_llm"
    /\ backend' = o
    /\ llm_calls' = llm_calls + 1
    /\ LET r == query_llm(o)
       IN IF r.kind = "return"
          THEN /\ response' = r.val
               /\ memory' = Append(memory, AgentRecord(r.val))
               /\ history' = Append(history, AgentRecord(r.val))
               /\ pc' = "dispatch"
               /\ UNCHANGED result
          ELSE /\ result' = r
               /\ pc' = "idle"
               /\ UNCHANGED <<response, memory, history>>
    /\ UNCHANGED <<tools, user_input, prompt, response_dict, invoked, turns,
                   input_string, parsed, time_city, time_result, run, previous>>

\* process_input, from the call of json_parser to its return.  json_parser
\* catches the JSONDecodeError of json.loads itself and json.loads raises
\* nothing else on these texts, so the except branch around the call is
\* not taken.
process_input_dispatch(zoneinfo) ==
    /\ pc = "dispatch"
    /\ response_dict' = json_parser(response)
    /\ LET d == dispatch(tools, response_dict', response, zoneinfo)
       IN /\ result' = d.out
          /\ invoked' = d.calls
    /\ pc' = "idle"
    /\ UNCHANGED <<tools, memory, history, user_input, prompt, backend,
                   response, llm_calls, turns, input_string, parsed, time_city,
                   time_result, run, previous>>

\* a call of json_parser on its own
call_json_parser ==
    /\ parsed = NotParsed
    /\ parsed' = json_parser(input_string)
    /\ UNCHANGED <<tools, memory, history, pc, user_input, prompt, backend,
                   response, response_dict, result, invoked, llm_calls, turns,
                   input_string, time_city, time_result, run, previous>>

\* Agent() once more: a second Agent object, with a registry and a memory
\* of its own.  The last call of the first object is remembered: its
\* arguments, the registry it saw, the backend outcome, its prompt and
\* what it returned or raised.
new_agent ==
    /\ pc = "idle"
    /\ turns > 0
    /\ previous = NoPrevious
    /\ previous' = [kind |-> "call",
                    user_input |-> user_input,
                    tools |-> SubSeq(tools, 1, Len(prompt.tool_descriptions)),
                    backend |-> backend,
                    prompt |-> prompt,
                    result |-> result,
                    invoked |-> invoked]
    /\ tools' = <<>>
    /\ memory' = <<>>
    /\ history' = <<>>
    /\ user_input' = <<>>
    /\ prompt' = NoPrompt
    /\ backend' = NoBackend
    /\ response' = <<>>
    /\ response_dict' = NotParsed
    /\ result' = NoResult
    /\ invoked' = <<>>
    /\ llm_calls' = 0
    /\ turns' = 0
    /\ UNCHANGED <<pc, input_string, parsed, time_city, time_result, run>>

\* a call of TimeTool.use(city) on its own
call_time_tool(zoneinfo) ==
    /\ time_result = NoResult
    /\ time_result' = [out |-> Returned(TimeTool_use(time_city, zoneinfo)),
                       zoneinfo |-> zoneinfo]
    /\ UNCHANGED <<tools, memory, history, pc, user_input, prompt, backend,
                   response, response_dict, result, invoked, llm_calls, turns,
                   input_string, parsed, time_city, run, previous>>

\* the words that end the loop of run
ExitWords ==
    {<<"e","x","i","t">>, <<"b","y","e">>, <<"c","l","o","s","e">>}

\* user_input.lower() in ["exit", "bye", "close"]
IsExitLine(line) == Lower(line) \in ExitWords

\* run, from its entry to the first input(): the greeting, the first line
run_begin(line) ==
    /\ run = NotRunning
    /\ pc = "idle"
    /\ run' = [pc |-> "loop", line |-> line, reads |-> 1, printed |-> <<>>]
    /\ UNCHANGED <<tools, memory, history, pc, user_input, prompt, backend,
                   response, response_dict, result, invoked, llm_calls, turns,
                   input_string, parsed, time_city, time_result, previous>>

\* run, the line read is one of the words: "See you later!" and break
run_exit ==
    /\ run.pc = "loop"
    /\ turns < run.reads
    /\ IsExitLine(run.line)
    /\ run' = [run EXCEPT !.pc = "done"]
    /\ UNCHANGED <<tools, memory, history, pc, user_input, prompt, backend,
                   response, response_dict, result, invoked, llm_calls, turns,
                   input_string, parsed, time_city, time_result, previous>>

\* run, the line read is not one of the words: process_input is called
run_call(bound) ==
    /\ run.pc = "loop"
    /\ turns < run.reads
    /\ ~IsExitLine(run.line)
    /\ process_input_begin(run.line, bound)

\* run, after process_input: an exception leaves run; a returned value is
\* printed and the next line is read
run_return(next) ==
    /\ run.pc = "loop"
    /\ pc = "idle"
    /\ turns = run.reads
    /\ run' = IF result.kind = "raise"
              THEN [run EXCEPT !.pc = "raised"]
              ELSE [pc |-> "loop",
                    line |-> next,
                    reads |-> run.reads + 1,
                    printed |-> Append(run.printed, Printed(result.val))]
    /\ UNCHANGED <<tools, memory, history, pc, user_input, prompt, backend,
                   response, response_dict, result, invoked, llm_calls, turns,
                   input_string, parsed, time_city, time_result, previous>>

(***************************************************************************)
(* Inputs: user texts, raw completion texts, backend outcomes.             *)
(***************************************************************************)
UserTexts == {<<"h","i">>, <<"t","i","m","e","?">>}

\* the JSON text of a string
Q(s) == <<"\"">> \o s \o <<"\"">>

Absent == <<>>

RECURSIVE JoinMembers(_)
JoinMembers(ms) ==
    IF ms = <<>> THEN <<>>
    ELSE IF Len(ms) = 1 THEN Q(ms[1][1]) \o <<":", " ">> \o ms[1][2]
    ELSE Q(ms[1][1]) \o <<":", " ">> \o ms[1][2] \o <<",", " ">>
         \o JoinMembers(Tail(ms))

\* the JSON text of an object, from <<key, value text>> pairs; a pair
\* whose value text is Absent is left out
ObjText(ms) ==
    <<"{">> \o JoinMembers(SelectSeq(ms, LAMBDA p : p[2] # Absent)) \o <<"}">>

DecisionText(actionText, argsText) ==
    ObjText(<<<<K_action, actionText>>, <<K_args, argsText>>>>)

\* name with the letters at the positions S switched to the other case
Casing(name, S) ==
    [i \in 1..Len(name) |->
        IF i \notin S THEN name[i]
        ELSE IF LowerCh(name[i]) = name[i] THEN UpperCh(name[i])
        ELSE LowerCh(name[i])]

CasePositions == {2, 6, 9}
TimeToolCasings ==
    {Casing(TimeToolName, S) : S \in SUBSET CasePositions}
    \cup {Lower(TimeToolName), [i \in 1..Len(TimeToolName) |-> UpperCh(TimeToolName[i])]}

Tokyo == <<"T","o","k","y","o">>
Atlantis == <<"A","t","l","a","n","t","i","s">>
Hi == <<"h","i">>

\* action members: names of tools, and respond_to_user, a number, none
ToolActionTexts == {Q(TimeToolName), Q(AnyToolName)}
OtherActionTexts == {Q(RESPOND_TO_USER), <<"1">>, Absent}

ArgsTexts ==
    {ObjText(<<<<K_city, Q(Tokyo)>>>>),
     ObjText(<<<<K_city, Q(Atlantis)>>>>),
     ObjText(<<<<K_city, <<"1">>>>>>),
     ObjText(<<<<<<"town">>, Q(Tokyo)>>>>),
     ObjText(<<<<K_city, Q(Tokyo)>>, <<<<"unit">>, Q(<<"c">>)>>>>),
     ObjText(<<<<K_response, Q(Hi)>>>>),
     ObjText(<<>>),
     <<"1">>,
     Absent}

\* texts that are not a JSON object: prose, a cut-off object, an array, a
\* string, a number, a literal, nothing
OtherTexts ==
    {Hi,
     <<"{">> \o Q(K_action) \o <<":", " ">> \o Q(TimeToolName),
     <<"[", "1", "]">>, Q(Hi), <<"1">>, <<"null">>, <<"true">>, <<"NaN">>,
     <<>>}

RawTexts ==
    {DecisionText(a, g) : a \in ToolActionTexts, g \in ArgsTexts}
    \cup {DecisionText(Q(c), ObjText(<<<<K_city, Q(Tokyo)>>>>)) : c \in TimeToolCasings}
    \cup {DecisionText(a, g) :
            a \in OtherActionTexts,
            g \in {ObjText(<<<<K_response, Q(Hi)>>>>), <<"1">>, Absent}}
    \cup OtherTexts

\* response bodies that are not {"choices": [{"text": <text>}]}
OddBodies ==
    {PyList(<<>>),
     PyDict(EmptyMap),
     PyDict(MapPut(EmptyMap, K_choices, PyList(<<>>))),
     PyDict(MapPut(EmptyMap, K_choices, PyDict(MapPut(EmptyMap, K_text, PyStr(Hi))))),
     PyDict(MapPut(EmptyMap, K_choices, PyList(<<PyStr(Hi)>>))),
     PyDict(MapPut(EmptyMap, K_choices, PyList(<<PyDict(EmptyMap)>>))),
     PyDict(MapPut(EmptyMap, K_choices,
        PyList(<<PyDict(MapPut(EmptyMap, K_text, PyStr(<<>>)))>>))),
     PyDict(MapPut(EmptyMap, K_choices,
        PyList(<<PyDict(MapPut(EmptyMap, K_text, PyInt(<<"1">>)))>>)))}

BackendOutcomes ==
    TransportFailures
    \cup {BodyNotJSON(c) : c \in BOOLEAN}
    \cup {JSONBody(b) : b \in OddBodies}
    \cup {Completion(<<" ">> \o t \o <<"\n">>) : t \in RawTexts}

\* the outcomes tried in a turn: all of them in the first turn with the
\* first user text, two otherwise
OutcomesFor(text, turn) ==
    IF text = Hi /\ turn = 1 THEN BackendOutcomes
    ELSE {[kind |-> "ConnectionError"],
          Completion(DecisionText(Q(TimeToolName), ObjText(<<<<K_city, Q(Tokyo)>>>>)))}

\* the outcomes of the long runs: a direct response, and a body that makes
\* query_llm raise
LongUserTexts == {Hi}
LongOutcomes ==
    {Completion(DecisionText(Q(RESPOND_TO_USER), ObjText(<<<<K_response, Q(Hi)>>>>))),
     JSONBody(PyList(<<>>))}

\* the outcomes of the runs of two Agent objects: a transport failure, a
\* body that makes query_llm raise, a text that makes the dispatch raise,
\* and a decision for the Time Tool
PairOutcomes ==
    {[kind |-> "ConnectionError"],
     JSONBody(PyList(<<>>)),
     Completion(<<"[", "1", "]">>),
     Completion(DecisionText(Q(TimeToolName), ObjText(<<<<K_city, Q(Tokyo)>>>>)))}

\* the lines typed into run: the words in some casings, lines that hold a
\* word and more, a line that holds none
RunLines ==
    {Hi,
     <<"e","x","i","t">>,
     <<"B","y","e">>,
     <<"C","L","O","S","E">>,
     <<"e","x","i","t","s">>,
     <<" ","b","y","e">>}

\* the outcomes of the turns of run: a transport failure, a direct response,
\* a body that makes query_llm raise, and a decision for the Time Tool
RunOutcomes ==
    LongOutcomes
    \cup {[kind |-> "ConnectionError"],
          Completion(DecisionText(Q(TimeToolName), ObjText(<<<<K_city, Q(Tokyo)>>>>)))}

\* the arguments of the calls of TimeTool.use on its own: the cities of the
\* table in several casings, cities that are not in it, values that are no
\* str
TimeCasePositions == {1, 2, 5}
TimeCities ==
    {PyStr(Casing(c, S)) : c \in city_timezones, S \in SUBSET TimeCasePositions}
    \cup {PyStr(Atlantis), PyStr(<<>>), PyStr(Tokyo \o <<" ">>),
          PyStr(<<"T","o","k","i","o">>)}
    \cup {PyInt(<<"1">>), PyNone, PyList(<<>>), PyDict(EmptyMap)}

(***************************************************************************)
(* Specifications.                                                         *)
(***************************************************************************)
\* every outcome of the backend in the first turn, a few turns
Next ==
    \/ \E cls \in ToolClasses : add_tool(cls)
    \/ \E text \in UserTexts : process_input_begin(text, MaxTurns)
    \/ \E o \in OutcomesFor(user_input, turns) : process_input_query(o)
    \/ \E zoneinfo \in BOOLEAN : process_input_dispatch(zoneinfo)

Spec == Init /\ [][Next]_vars

\* few outcomes of the backend, many turns
NextLong ==
    \/ \E cls \in ToolClasses : add_tool(cls)
    \/ \E text \in LongUserTexts : process_input_begin(text, MaxLongTurns)
    \/ \E o \in LongOutcomes : process_input_query(o)
    \/ \E zoneinfo \in BOOLEAN : process_input_dispatch(zoneinfo)

SpecLong == Init /\ [][NextLong]_vars

\* json_parser on its own: every text of up to MaxTextLen symbols of
\* ParserAlphabet, the raw texts, and the raw texts with one symbol lost
ParserAlphabet ==
    {"{", "}", "[", "]", ":", ",", "\"", "a", "0", "1", " ", "null"}

DeleteAt(t, n) == SubSeq(t, 1, n - 1) \o SubSeq(t, n + 1, Len(t))

ParserInputs ==
    UNION {[1..n -> ParserAlphabet] : n \in 0..MaxTextLen}
    \cup RawTexts
    \cup UNION {{DeleteAt(t, n) : n \in 1..Len(t)} : t \in RawTexts}

InitParser ==
    /\ tools = <<>>
    /\ memory = <<>>
    /\ history = <<>>
    /\ pc = "idle"
    /\ user_input = <<>>
    /\ prompt = NoPrompt
    /\ backend = NoBackend
    /\ response = <<>>
    /\ response_dict = NotParsed
    /\ result = NoResult
    /\ invoked = <<>>
    /\ llm_calls = 0
    /\ turns = 0
    /\ input_string \in ParserInputs
    /\ parsed = NotParsed
    /\ time_city = PyNone
    /\ time_result = NoResult
    /\ run = NotRunning
    /\ previous = NoPrevious

NextParser == call_json_parser

SpecParser == InitParser /\ [][NextParser]_vars

\* two Agent objects one after the other, each with a history of its own
NextPair ==
    \/ \E cls \in ToolClasses : add_tool(cls)
    \/ \E text \in LongUserTexts : process_input_begin(text, MaxTurns)
    \/ \E o \in PairOutcomes : process_input_query(o)
    \/ process_input_dispatch(TRUE)
    \/ new_agent

SpecPair == Init /\ [][NextPair]_vars

\* TimeTool.use on its own: every argument of TimeCities, with and without
\* the zone data
InitTime ==
    /\ tools = <<>>
    /\ memory = <<>>
    /\ history = <<>>
    /\ pc = "idle"
    /\ user_input = <<>>
    /\ prompt = NoPrompt
    /\ backend = NoBackend
    /\ response = <<>>
    /\ response_dict = NotParsed
    /\ result = NoResult
    /\ invoked = <<>>
    /\ llm_calls = 0
    /\ turns = 0
    /\ input_string = <<>>
    /\ parsed = NotParsed
    /\ time_city \in TimeCities
    /\ time_result = NoResult
    /\ run = NotRunning
    /\ previous = NoPrevious

NextTime == \E zoneinfo \in BOOLEAN : call_time_tool(zoneinfo)

SpecTime == InitTime /\ [][NextTime]_vars

\* main: Time Tools are registered, then run reads lines until it ends
NextRun ==
    \/ run = NotRunning /\ add_tool("TimeTool")
    \/ \E line \in RunLines : run_begin(line)
    \/ run_exit
    \/ run_call(MaxLines)
    \/ \E o \in RunOutcomes : process_input_query(o)
    \/ \E zoneinfo \in BOOLEAN : process_input_dispatch(zoneinfo)
    \/ \E next \in RunLines : run_return(next)

SpecRun == Init /\ [][NextRun]_vars

(***************************************************************************)
(* Properties.                                                             *)
(***************************************************************************)
\* the last call got a raw text from query_llm and has returned or raised
TurnDone ==
    /\ pc = "idle"
    /\ history # <<>>
    /\ history[Len(history)].speaker = "Agent"

\* a and b are the same text up to the case of their letters
EqualIgnoringCase(a, b) ==
    /\ Len(a) = Len(b)
    /\ \A i \in 1..Len(a) : UpperCh(a[i]) = UpperCh(b[i])

\* the action and the args of the decision the last call parsed
DecisionAction == DictGet(response_dict, K_action, PyStr(<<>>))
DecisionArgs == DictGet(response_dict, K_args, PyDict(EmptyMap))
IsDecision == response_dict.k = "dict" /\ DecisionAction.k = "str"

\* the registry as the last call saw it: add_tool appends, and the prompt
\* of the call has one catalog line per tool registered then
CallTools == SubSeq(tools, 1, Len(prompt.tool_descriptions))
MatchingTools ==
    {i \in 1..Len(CallTools) :
        EqualIgnoringCase(tool_name(CallTools[i]), DecisionAction.s)}

\* C1: the memory log never holds more than max_memory = 10 records, the
\* state at the end of a process_input call included.
C1_MemoryWithinMax == Len(memory) <= max_memory

\* C2: after any sequence of process_input calls the memory log is exactly
\* the most recent min(10, n) records of the n records appended so far, in
\* their order.
C2_MemoryIsRecentSuffix ==
    pc = "idle" => memory = LastN(history, max_memory)

\* C3: whatever raw text the backend returned, process_input returns a
\* well-formed textual response (a text, or a respond_to_user dict that
\* carries a text) and does not raise.
C3_NeverRaises ==
    TurnDone =>
        /\ result.kind = "return"
        /\ \/ result.val.k = "str"
           \/ result.val.k = "dict" /\ Printed(result.val).k = "str"

\* C4: when the raw text parses to a decision with action respond_to_user
\* and args.response = t, and no tool matches, process_input returns the
\* respond_to_user dict that carries t.
C4_ReturnsParsedResponse ==
    ( /\ TurnDone
      /\ json_loads(response).ok
      /\ IsDecision
      /\ DecisionAction.s = RESPOND_TO_USER
      /\ MatchingTools = {}
      /\ DecisionArgs.k = "dict"
      /\ K_response \in DOMAIN DecisionArgs.m
      /\ DecisionArgs.m[K_response].k = "str" )
    => result = Returned(RespondToUser(DecisionArgs.m[K_response].s))

\* C5: after a transport failure of the completion call, process_input has
\* not raised and the response shown to the user is the fixed text "There
\* was an error getting a response from the LLM.".
C5_TransportFailureText ==
    (pc = "idle" /\ backend \in TransportFailures) =>
        /\ result.kind = "return"
        /\ Printed(result.val) = PyStr(MSG_LLM_ERROR)

\* C6: when the raw text is not valid JSON, process_input returns the
\* respond_to_user dict that carries the parser's "I couldn't understand
\* ..." text.
C6_MalformedReplyText ==
    (TurnDone /\ ~json_loads(response).ok) =>
        result = Returned(RespondToUser(MSG_NOT_UNDERSTOOD))

\* The grammar of the texts the json module documents as accepted (RFC
\* 8259 and the literal NaN) over the symbols of the model, as a definition
\* of the texts and of what each denotes, not as a scanner:
\*   text = ws value ws    value = string / number / literal / array / object
\*   array = [ ws ] / [ value *( , value ) ]
\*   object = { ws } / { member *( , member ) }     member = string : value
IsStringText(s) ==
    /\ Len(s) >= 2
    /\ s[1] = "\"" /\ s[Len(s)] = "\""
    /\ \A n \in 2..(Len(s) - 1) : s[n] # "\""
IsNumberText(s) ==
    /\ Len(s) >= 1
    /\ \A n \in 1..Len(s) : s[n] \in DIGITS
    /\ (s[1] = "0" => Len(s) = 1)
Inner(s) == SubSeq(s, 2, Len(s) - 1)
Before(s, n) == SubSeq(s, 1, n - 1)
After(s, n) == SubSeq(s, n + 1, Len(s))

RECURSIVE IsValueText(_), IsElementsText(_), IsMembersText(_)
IsValueText(t) ==
    LET s == Strip(t)
    IN \/ IsStringText(s)
       \/ IsNumberText(s)
       \/ s \in {<<"null">>, <<"true">>, <<"NaN">>}
       \/ /\ Len(s) >= 2 /\ s[1] = "[" /\ s[Len(s)] = "]"
          /\ (Strip(Inner(s)) = <<>> \/ IsElementsText(Inner(s)))
       \/ /\ Len(s) >= 2 /\ s[1] = "{" /\ s[Len(s)] = "}"
          /\ (Strip(Inner(s)) = <<>> \/ IsMembersText(Inner(s)))
IsElementsText(s) ==
    \/ IsValueText(s)
    \/ \E n \in 1..Len(s) :
          s[n] = "," /\ IsValueText(Before(s, n)) /\ IsElementsText(After(s, n))
IsMemberText(s) ==
    \E n \in 1..Len(s) :
        s[n] = ":" /\ IsStringText(Strip(Before(s, n))) /\ IsValueText(After(s, n))
IsMembersText(s) ==
    \/ IsMemberText(s)
    \/ \E n \in 1..Len(s) :
          s[n] = "," /\ IsMemberText(Before(s, n)) /\ IsMembersText(After(s, n))

RECURSIVE Denoted(_), DenotedElements(_), DenotedMembers(_, _)
Denoted(t) ==
    LET s == Strip(t)
    IN IF IsStringText(s) THEN PyStr(Inner(s))
       ELSE IF IsNumberText(s) THEN PyInt(s)
       ELSE IF s = <<"null">> THEN PyNone
       ELSE IF s = <<"true">> THEN PyBool(TRUE)
       ELSE IF s = <<"NaN">> THEN PyFloat("nan")
       ELSE IF s[1] = "["
       THEN PyList(IF Strip(Inner(s)) = <<>> THEN <<>>
                   ELSE DenotedElements(Inner(s)))
       ELSE PyDict(IF Strip(Inner(s)) = <<>> THEN EmptyMap
                   ELSE DenotedMembers(Inner(s), EmptyMap))
DenotedElements(s) ==
    IF IsValueText(s) THEN <<Denoted(s)>>
    ELSE LET n == CHOOSE n \in 1..Len(s) :
                      s[n] = "," /\ IsValueText(Before(s, n))
                      /\ IsElementsText(After(s, n))
         IN <<Denoted(Before(s, n))>> \o DenotedElements(After(s, n))
\* a later member of the same key replaces the earlier one
DenotedMembers(s, m) ==
    LET member == IF IsMemberText(s) THEN s
                  ELSE Before(s, CHOOSE n \in 1..Len(s) :
                          s[n] = "," /\ IsMemberText(Before(s, n))
                          /\ IsMembersText(After(s, n)))
        c == CHOOSE n \in 1..Len(member) :
                 member[n] = ":" /\ IsStringText(Strip(Before(member, n)))
                 /\ IsValueText(After(member, n))
        m2 == MapPut(m, Inner(Strip(Before(member, c))), Denoted(After(member, c)))
    IN IF IsMemberText(s) THEN m2
       ELSE DenotedMembers(After(s, Len(member) + 1), m2)

\* C7: json_parser returns the "I couldn't understand ..." respond_to_user
\* decision for every text that is not JSON, and for a JSON text the value
\* the text denotes.
C7_ParserFallbackOrDecoded ==
    parsed # NotParsed =>
        IF IsValueText(input_string)
        THEN parsed = Denoted(input_string)
        ELSE parsed = RespondToUser(MSG_NOT_UNDERSTOOD)

C7_Witness ==
    /\ input_string = <<"{">> \o Q(K_action) \o <<":", " ">> \o Q(TimeToolName)
    /\ ~IsValueText(input_string)
    /\ parsed = RespondToUser(MSG_NOT_UNDERSTOOD)

\* C8: when the decision's action is a tool-style name that matches no
\* registered tool, case ignored, process_input returns the respond_to_user
\* dict that carries the raw text of the turn, and has invoked no tool.
C8_UnknownToolEchoesRaw ==
    ( /\ TurnDone
      /\ IsDecision
      /\ DecisionAction.s \notin {<<>>, RESPOND_TO_USER}
      /\ MatchingTools = {} )
    => /\ result = Returned(RespondToUser(response))
       /\ invoked = <<>>

C8_Witness ==
    /\ TurnDone
    /\ CallTools # <<>>
    /\ IsDecision
    /\ DecisionAction.s = AnyToolName
    /\ MatchingTools = {}
    /\ result = Returned(RespondToUser(response))

\* C9: when the decision's action is the name of a registered tool in any
\* letter-casing, process_input calls use on such a tool with the
\* decision's args as keyword arguments, and what that call returns is
\* returned as it is, a text, not a respond_to_user dict.
C9_CaseInsensitiveDispatch ==
    (TurnDone /\ IsDecision /\ MatchingTools # {}) =>
        /\ Len(invoked) = 1
        /\ invoked[1].tool \in MatchingTools
        /\ invoked[1].args = DecisionArgs
        /\ result.kind = "return" => result.val.k = "str"
        /\ ( /\ tools[invoked[1].tool].cls = "TimeTool"
             /\ DecisionArgs.k = "dict"
             /\ DOMAIN DecisionArgs.m = {K_city} )
           => result.kind = "return"

C9_Witness ==
    /\ TurnDone
    /\ IsDecision
    /\ DecisionAction.s = Casing(TimeToolName, {2, 6})
    /\ Len(invoked) = 1
    /\ tools[invoked[1].tool].cls = "TimeTool"
    /\ invoked[1].args = PyDict(MapPut(EmptyMap, K_city, PyStr(Tokyo)))
    /\ result.kind = "return"
    /\ result.val.k = "str"

\* C10: a call invokes at most one tool, and never one that stands in the
\* registry behind a tool of the same name, case ignored.
C10_FirstRegisteredWins ==
    /\ Len(invoked) <= 1
    /\ \A n \in 1..Len(invoked) : \A j \in 1..(invoked[n].tool - 1) :
          ~EqualIgnoringCase(tool_name(tools[j]), tool_name(tools[invoked[n].tool]))

C10_Witness ==
    /\ TurnDone
    /\ Len(tools) = 2
    /\ EqualIgnoringCase(tool_name(tools[1]), tool_name(tools[2]))
    /\ Len(invoked) = 1
    /\ invoked[1].tool = 1

\* the call of query_llm of the last process_input call has raised
QueryRaised ==
    /\ pc = "idle"
    /\ backend # NoBackend
    /\ result.kind = "raise"
    /\ response_dict = NotParsed

\* the call of query_llm of the running or last call has returned
QueryReturned == backend # NoBackend /\ ~QueryRaised

\* the backend outcomes that are failures of the completion call: no
\* response, an error status, a body that is not {"choices": [{"text": t}]}
\* with a text t that holds more than whitespace
IsFailureOutcome(o) ==
    \/ o.kind # "JSON"
    \/ o.body \in OddBodies
    \/ o = Completion(<<" ", "\n">>)

\* text is the JSON text of an object with a string action
IsSerializedDecision(text) ==
    LET r == json_loads(text)
    IN /\ r.ok
       /\ r.val.k = "dict"
       /\ K_action \in DOMAIN r.val.m
       /\ r.val.m[K_action].k = "str"

\* C11: query_llm raises for no outcome of the backend, and for every
\* failure of the completion call it returns the JSON text of a decision.
C11_QueryNeverRaises ==
    backend # NoBackend =>
        /\ ~QueryRaised
        /\ IsFailureOutcome(backend) => IsSerializedDecision(response)

\* the body of the last completion call, when it was a JSON object
BodyIsObject == backend.kind = "JSON" /\ backend.body.k = "dict"
Choices == backend.body.m[K_choices]
FirstChoice == Choices.items[1]
HasChoiceList ==
    /\ BodyIsObject
    /\ K_choices \in DOMAIN backend.body.m
    /\ Choices.k = "list"
HasChoiceObject ==
    HasChoiceList /\ Choices.items # <<>> /\ FirstChoice.k = "dict"

\* C12: an empty response (choices present and empty, or a text field that
\* is the empty string) gives the "The LLM did not return any content."
\* fallback; a response with a missing field (no choices field, or a choice
\* with no text field) gives the "There was an error getting a response
\* from the LLM." fallback.
C12_FallbackByCause ==
    /\ ( \/ HasChoiceList /\ Choices.items = <<>>
         \/ /\ HasChoiceObject
            /\ K_text \in DOMAIN FirstChoice.m
            /\ FirstChoice.m[K_text] = PyStr(<<>>) )
       => /\ QueryReturned
          /\ response = SerializedFallback(MSG_NO_CONTENT)
    /\ ( \/ BodyIsObject /\ K_choices \notin DOMAIN backend.body.m
         \/ HasChoiceObject /\ K_text \notin DOMAIN FirstChoice.m )
       => /\ QueryReturned
          /\ response = SerializedFallback(MSG_LLM_ERROR)

\* the running or last call of the second Agent object got the user text
\* and the registry that the last call of the first object got
SameCallAsPrevious ==
    /\ previous # NoPrevious
    /\ turns > 0
    /\ user_input = previous.user_input
    /\ CallTools = previous.tools

\* C13: two Agent objects with any two histories of turns, failed and
\* malformed ones included: a process_input call with the same user text,
\* the same registry and the same backend outcome sends the same prompt, and
\* returns or raises the same and invokes the same tool with the same
\* arguments.
C13_LaterTurnsUnaffected ==
    SameCallAsPrevious =>
        /\ prompt = previous.prompt
        /\ (pc = "idle" /\ backend = previous.backend) =>
              /\ result = previous.result
              /\ invoked = previous.invoked

\* the two calls agree, the second object is in its second turn after a call
\* that raised in its first, the first object ended after one turn
C13_Witness ==
    /\ SameCallAsPrevious
    /\ pc = "idle"
    /\ backend = previous.backend
    /\ turns = 2
    /\ Len(history) = 3
    /\ invoked # <<>>
    /\ Len(memory) = 3

\* C14: a process_input call posts exactly one completion request, whatever
\* the outcome (none before query_llm is called, one from then on, a failed
\* request is not repeated), it attempts at most one tool.use call, and no
\* tool.use call is attempted before the completion request was posted.
C14_OneCompletionThenOneTool ==
    /\ pc = "query_llm" => llm_calls = 0 /\ invoked = <<>>
    /\ pc = "dispatch" => llm_calls = 1 /\ invoked = <<>>
    /\ (pc = "idle" /\ turns > 0) => llm_calls = 1 /\ Len(invoked) <= 1

\* a second turn that posted one request and invoked one tool, after a first
\* turn whose request failed
C14_Witness ==
    /\ pc = "idle"
    /\ turns = 2
    /\ llm_calls = 1
    /\ Len(invoked) = 1
    /\ Len(history) = 4
    /\ history[2] = AgentRecord(SerializedFallback(MSG_LLM_ERROR))

\* C15: the loop of run ends only on a line that is one of the words, case
\* ignored; no such line is passed to process_input; and when run waits
\* with a line just read, each line read before it was passed to
\* process_input and got one printed response.
C15_LoopEndsOnlyOnExitWord ==
    /\ run.pc \in {"done", "raised"} => IsExitLine(run.line)
    /\ run # NotRunning =>
          \A i \in 1..Len(history) :
              history[i].speaker = "User" => ~IsExitLine(history[i].text)
    /\ (run.pc = "loop" /\ turns < run.reads) =>
          /\ turns = run.reads - 1
          /\ Len(run.printed) = run.reads - 1

\* city is a str that is a city of the table up to the case of its letters
IsTableCity(v) ==
    /\ v.k = "str"
    /\ \E c \in city_timezones : EqualIgnoringCase(v.s, c)

\* C16: TimeTool.use(city) returns a str for every city value and raises
\* for none.  The str starts with one of three texts, followed by the city
\* as it was given: "The current time in " when the city is one of the
\* table in any casing and the zone data is found, "Could not determine
\* the timezone for " when the city is a str that is not in the table, and
\* "Error getting time for " when the body failed (a city that is no str,
\* zone data that is missing).
C16_TimeToolNeverRaises ==
    time_result # NoResult =>
        /\ time_result.out.kind = "return"
        /\ time_result.out.val.k = "str"
        /\ LET text == time_result.out.val.s
               given == Format(time_city)
               expected ==
                   IF time_city.k # "str" THEN "Error getting time for "
                   ELSE IF ~IsTableCity(time_city)
                        THEN "Could not determine the timezone for "
                   ELSE IF time_result.zoneinfo THEN "The current time in "
                   ELSE "Error getting time for "
           IN /\ Len(text) > Len(given)
              /\ text[1] = expected
              /\ SubSeq(text, 2, Len(given) + 1) = given

\* a call with a city of the table written in mixed case has returned the
\* time text
C16_Witness ==
    /\ time_result # NoResult
    /\ time_city.k = "str"
    /\ IsTableCity(time_city)
    /\ time_city.s \notin city_timezones
    /\ time_result.zoneinfo
    /\ time_result.out.val.s[1] = "The current time in "

\* C17: every process_input call appends two records to the memory log:
\* the "User:" record before the completion call and the "Agent:" record
\* with the raw text after it, whatever happens to the text afterwards; so
\* the records ever appended are the two of each call, in this order.
C17_TwoRecordsPerCall ==
    /\ pc = "query_llm" => Len(history) = 2 * turns - 1
    /\ pc \in {"dispatch", "idle"} => Len(history) = 2 * turns
    /\ \A i \in 1..Len(history) :
          history[i].speaker = (IF i % 2 = 1 THEN "User" ELSE "Agent")
    /\ (pc = "idle" /\ turns > 0) =>
          /\ history[Len(history)] = AgentRecord(response)
          /\ history[Len(history) - 1] = UserRecord(user_input)

\* the prompt carries the record: the prompt has the user text of the call
\* and the catalog lines, so a record it carries is the "User:" record of
\* that text
PromptCarries(record) == record = UserRecord(prompt.user_input)

\* C18: the prompt sent in a turn is built from the memory log and the tool
\* catalog: it carries every record held in memory when the completion call
\* is made, those of earlier turns included, and one catalog line of name
\* and description per registered tool, in insertion order.
C18_PromptBuiltFromMemory ==
    pc = "query_llm" =>
        /\ \A i \in 1..Len(memory) : PromptCarries(memory[i])
        /\ Len(prompt.tool_descriptions) = Len(tools)
        /\ \A i \in 1..Len(tools) :
              /\ prompt.tool_descriptions[i].name = tool_name(tools[i])
              /\ prompt.tool_descriptions[i].description = tool_description(tools[i])

\* C19: no step of a process_input call changes the registry, whichever
\* path the call takes; a step that changes the registry leaves the tools
\* registered before in place and puts one tool behind them.
C19_RegistryOnlyAppended ==
    [][/\ (pc # "idle" \/ pc' # "idle") => tools' = tools
       /\ tools' # tools =>
             /\ Len(tools') = Len(tools) + 1
             /\ SubSeq(tools', 1, Len(tools)) = tools]_vars

\* two different tools are registered and a call has invoked the second
C19_Witness ==
    /\ TurnDone
    /\ Len(tools) = 2
    /\ tools[1].cls # tools[2].cls
    /\ Len(invoked) = 1
    /\ invoked[1].tool = 2

\* C20: the memory log never holds more than max_memory + 1 = 11 records,
\* and it holds at most max_memory = 10 when the prompt has been rendered
\* and the completion call is about to be made.
C20_MemoryAtMostOneOver ==
    /\ Len(memory) <= max_memory + 1
    /\ pc = "query_llm" => Len(memory) <= max_memory

\* a call has ended with 11 records in memory, after a completion call made
\* with 10
C20_Witness ==
    /\ pc = "idle"
    /\ Len(memory) = max_memory + 1
    /\ memory[max_memory].speaker = "User"
    /\ memory[max_memory + 1].speaker = "Agent"

====
